---- MODULE Spec2Model ----
(***************************************************************************)
(* A model of f451-enviro: the Enviro+ device wrapper (enviro.py), its     *)
(* data series (enviro_data.py, en_demo_data.py) and the mock driver set   *)
(* (fake_HAT.py).                                                          *)
(*                                                                         *)
(* Numbers.  Every number of the program is held in fixed point, as the    *)
(* integer n * Unit with Unit = 20, so that 1013.25 is 20265.  A Python    *)
(* value that may be None is a tuple: None is <<>> and the number n is     *)
(* <<n * Unit>>.                                                           *)
(***************************************************************************)
EXTENDS Integers, Sequences, FiniteSets, TLC

Unit == 4 * 5

Q(n) == n * Unit

None == <<>>

Num(n) == <<n>>

IsNone(x) == x = None

Val(x) == x[1]

Max2(a, b) == IF a >= b THEN a ELSE b

Min2(a, b) == IF a <= b THEN a ELSE b

(***************************************************************************)
(* Bounds of the model.                                                    *)
(***************************************************************************)
\* The largest maxLen a series is constructed with.
MaxLen == 3

\* The number of samples appended to a series in one run.
MaxAppends == 2

\* The width of the LCD in pixels (160 on the device): the number of values
\* a graph plots.
LcdWidth == 3

\* Thresholds of the colour selection run from -0.25 to ThresholdSteps * 0.25.
ThresholdSteps == 3

\* Progress fractions are multiples of 1 / FracDen.
FracDen == 4

----------------------------------------------------------------------------
(***************************************************************************)
(* Python built-ins used by the code.                                      *)
(***************************************************************************)

\* bool(x) of a number or None: None and 0 are false.
Truthy(x) == ~IsNone(x) /\ Val(x) # 0

\* all(t) and any(t) of a tuple or list of numbers / None.
PyAll(t) == \A i \in 1..Len(t) : Truthy(t[i])

PyAny(t) == \E i \in 1..Len(t) : Truthy(t[i])

\* s[start:] of a list: a negative start counts from the end, and both are
\* clipped to the list.
PySliceFrom(s, start) ==
    LET n == Len(s)
        b == IF start < 0 THEN Max2(n + start, 0) ELSE Min2(start, n)
    IN  SubSeq(s, b + 1, n)

\* deque(maxlen=maxlen).append(x): once full, the oldest item is dropped.
DequeAppend_unbounded(w, x, maxlen) == w \o <<x>>

DequeAppend(w, x, maxlen) ==
    IF maxlen = 0 THEN w
    ELSE IF Len(w) >= maxlen THEN Tail(w) \o <<x>>
    ELSE w \o <<x>>

\* deque([defVal] * maxLen, maxlen=maxLen)
DequeFill(dv, maxlen) == [i \in 1..maxlen |-> dv]

----------------------------------------------------------------------------
(***************************************************************************)
(* Data series.                                                            *)
(***************************************************************************)
VARIABLES
    series,        \* which series (EnviroObject) the run is about
    maxLen,        \* the maxLen the series was constructed with
    defVal,        \* the defVal the series was constructed with
    data,          \* EnviroObject.data: the deque of samples
    hist,          \* history: every value put into the deque, oldest first
    dataClean,     \* the DataUnit prep_data returned for the window as it is (<<>> if none)
    lenSlice,      \* the lenSlice argument of that call
    lastOp         \* the operation that ran last

dataVars == <<series, maxLen, defVal, data, hist, dataClean, lenSlice>>

\* A (min, max) tuple of numbers.
Range(lo, hi) == <<Num(lo), Num(hi)>>

\* The series of EnviroData and DemoData, and three DataUnits a caller of
\* prep_data may build: one bound only, and no valid tuple at all.
SeriesNames ==
    {"temperature", "pressure", "light", "rndnum", "rndpcnt",
     "upperOnly", "lowerOnly", "noValid"}

\* EnviroObject.valid of each series.
Valid(s) ==
    CASE s = "temperature" -> Range(Q(0), Q(65))
      [] s = "pressure"    -> Range(Q(260), Q(1260))
      [] s = "light"       -> <<None, None>>
      [] s = "rndnum"      -> Range(Q(45), Q(155))
      [] s = "rndpcnt"     -> Range(Q(0), Q(100))
      [] s = "upperOnly"   -> <<None, Num(Q(65))>>
      [] s = "lowerOnly"   -> <<Num(Q(45)), None>>
      [] s = "noValid"     -> None

\* EnviroObject.limits of each series.
Limits(s) ==
    CASE s = "temperature" -> <<Q(4), Q(18), Q(25), Q(35)>>
      [] s = "pressure"    -> <<Q(250), Q(650), Q(1013) + 5, Q(1015)>>
      [] s = "light"       -> <<Q(-1), Q(-1), Q(30000), Q(100000)>>
      [] s = "rndnum"      -> <<Q(55), Q(85), Q(115), Q(145)>>
      [] s = "rndpcnt"     -> <<Q(10), Q(30), Q(70), Q(90)>>
      [] OTHER             -> <<Q(10), Q(30), Q(70), Q(90)>>

\* EnviroObject.as_tuple(): the DataUnit of a series.
DataUnit(d, s) ==
    [data |-> d, valid |-> Valid(s), unit |-> s, label |-> s, limits |-> Limits(s)]

\* The samples a sensor read may deliver for a series: None, the bounds of
\* its valid range and their neighbours on either side.
Samples(s) ==
    LET v  == Valid(s)
        lo == IF v = None \/ IsNone(v[1]) THEN {} ELSE {Val(v[1]) - Unit, Val(v[1])}
        hi == IF v = None \/ IsNone(v[2]) THEN {} ELSE {Val(v[2]), Val(v[2]) + Unit}
        bs == IF lo \cup hi = {} THEN {Q(-1), Q(0), Q(1)} ELSE lo \cup hi
    IN  {None} \cup {Num(n) : n \in bs}

\* prep_data._is_valid(val, valid, allowNone=True)
_is_valid_strict(val, valid, allowNone) ==
    IF valid = None \/ ~PyAll(valid) THEN allowNone
    ELSE IF ~IsNone(val) /\ PyAny(valid)
         THEN /\ (~IsNone(valid[1]) => Val(val) > Val(valid[1]))
              /\ (~IsNone(valid[2]) => Val(val) < Val(valid[2]))
         ELSE FALSE

_is_valid(val, valid, allowNone) ==
    IF valid = None \/ ~PyAll(valid) THEN allowNone
    ELSE IF ~IsNone(val) /\ PyAny(valid)
         THEN /\ (~IsNone(valid[1]) => Val(val) >= Val(valid[1]))
              /\ (~IsNone(valid[2]) => Val(val) <= Val(valid[2]))
         ELSE FALSE

\* prep_data(inData, lenSlice): the DataUnit it returns ("ret") and the
\* DataUnit it was given as that object is when the call returns ("arg").
\* The slice is taken from list(inData.data), a copy, so the argument is
\* left as it was.
prep_data_inplace(inData, k) ==
    LET scrubbed == [i \in 1..Len(inData.data) |->
                        IF _is_valid(inData.data[i], inData.valid, TRUE)
                        THEN inData.data[i] ELSE Num(0)]
    IN  [ret |-> [inData EXCEPT !.data = PySliceFrom(scrubbed, -k)],
         arg |-> [inData EXCEPT !.data = scrubbed]]

prep_data(inData, k) ==
    LET dataSlice == PySliceFrom(inData.data, -k)
        clean == [i \in 1..Len(dataSlice) |->
                    IF _is_valid(dataSlice[i], inData.valid, TRUE)
                    THEN dataSlice[i] ELSE Num(0)]
    IN  [ret |-> [inData EXCEPT !.data = clean], arg |-> inData]

\* The lenSlice arguments tried: none (0), shorter and longer than the
\* window, and a negative one.
LenSlices == -1..(MaxLen + 1)

VARIABLES
    drivers,       \* the vendor modules whose import failed (mock substituted)
    dev,           \* the Enviro object
    err,           \* the exception the last operation raised ("" when none)
    pushed,        \* whether the last operation sent an image to the LCD
    progLog,       \* the last two display_progress calls that drew: <<inFrctn, x>>
    pms,           \* the last get_particles call (<<>> before any)
    prior,         \* the last call on the object: the sleep flag it found, the
                   \*   arguments it was given and the display_on / display_off
                   \*   calls it made on the LCD driver
    demo,          \* the demo application (en_demo.py): its position, clock,
                   \*   command line, runtime counters and data
    cLimits,       \* colour selection: the limits list,
    cVal,          \*   the value,
    cColor         \*   and the colour _get_rgb_from_map chose ("" before the call)

devVars == <<drivers, dev, pushed, progLog, pms, prior, demo>>

\* Before any call on the object.
NoCall == [asleep |-> FALSE, args |-> <<>>, power |-> <<>>]

\* The demo application is not running.
NoDemo == [pc |-> "none"]

colorVars == <<cLimits, cVal, cColor>>

----------------------------------------------------------------------------
(***************************************************************************)
(* Operations on a series.                                                 *)
(***************************************************************************)

\* EnviroData.__init__ / DemoData.__init__: one series of `names`, filled
\* with defVal.
InitData(names) ==
    /\ series \in names
    /\ maxLen \in 1..MaxLen
    /\ defVal \in {None, Num(0)}
    /\ data = DequeFill(defVal, maxLen)
    /\ hist = [i \in 1..maxLen |-> defVal]
    /\ dataClean = <<>>
    /\ lenSlice = 0

\* collect_data: data.<series>.data.append(<new sample>).  The DataUnit of
\* an earlier prep_data call is a local of update_Enviro_LCD and is gone by
\* the time the next sample is read.
AppendSample(x) ==
    /\ Len(hist) < maxLen + MaxAppends
    /\ data' = DequeAppend(data, x, maxLen)
    /\ hist' = Append(hist, x)
    /\ dataClean' = <<>>
    /\ lenSlice' = 0
    /\ lastOp' = "append"
    /\ err' = ""
    /\ UNCHANGED <<series, maxLen, defVal, devVars, colorVars>>

\* dataClean = prep_data(<series>.as_tuple(), k)
PrepData(k) ==
    LET r == prep_data(DataUnit(data, series), k)
    IN  /\ dataClean' = <<r.ret>>
        /\ data' = r.arg.data
        /\ lenSlice' = k
        /\ lastOp' = "prep_data"
        /\ err' = ""
        /\ UNCHANGED <<series, maxLen, defVal, hist, devVars, colorVars>>

----------------------------------------------------------------------------
(***************************************************************************)
(* The driver set.  Each vendor module is imported inside try/except       *)
(* ImportError; when the import fails the name is bound to a class of      *)
(* fake_HAT.py instead.                                                    *)
(***************************************************************************)
Modules == {"ST7735", "ltr559", "smbus", "bme280", "pms5003", "gas"}

\* LCD height in pixels.
ST7735_HEIGHT == 80

\* What enviro.py holds for each vendor module once the imports are done:
\* "attrs" are the attributes a lookup on it finds, and kind "class" marks a
\* class that was never instantiated, whose methods still want 'self'.
\*   ST7735  - the module ST7735, or the class FakeST7735 (which sets
\*             .ST7735 only on its instances, in __init__)
\*   ltr559  - an LTR559 instance / the module, or the class FakeLTR559
\*   gas     - the module enviroplus.gas, or the class FakeEnviroPlus
\*   bme280  - the instance BME280(i2c_dev=bus) built by Enviro.__init__
\*   pms5003 - the instance PMS5003() built by Enviro.__init__
\*   smbus   - the instance SMBus(1) built by Enviro.__init__
Driver(name, fake) ==
    CASE name = "ST7735" ->
            IF fake THEN [kind |-> "class", attrs |-> {}]
                    ELSE [kind |-> "module", attrs |-> {"ST7735"}]
      [] name = "ltr559" ->
            [kind |-> IF fake THEN "class" ELSE "instance",
             attrs |-> {"get_proximity", "get_lux"}]
      [] name = "gas" ->
            [kind |-> IF fake THEN "class" ELSE "module",
             attrs |-> {"read_all"}]
      [] name = "bme280" ->
            [kind |-> "instance",
             attrs |-> {"get_temperature", "get_pressure", "get_humidity"}]
      [] name = "pms5003" ->
            [kind |-> "instance",
             attrs |-> IF fake THEN {"read"} ELSE {"read", "reset"}]
      [] name = "smbus" ->
            [kind |-> "instance", attrs |-> {}]

\* The exception obj.m() raises: AttributeError when obj has no attribute m,
\* TypeError (missing 'self') when m is a method looked up on the class.
CallErr(obj, m) ==
    IF m \notin obj.attrs THEN "AttributeError"
    ELSE IF obj.kind = "class" THEN "TypeError"
    ELSE ""

\* The object ST7735.ST7735(port=0, ..., rotation=r) builds and begin()s:
\* the vendor's LCD, or fake_HAT.FakeSubST7735 (width, height and begin).
LcdObject(fake, r) ==
    [kind |-> "instance",
     attrs |-> IF fake THEN {"width", "height", "begin"}
               ELSE {"width", "height", "begin", "display", "display_on", "display_off"},
     width |-> LcdWidth,
     height |-> ST7735_HEIGHT,
     rotation |-> r,
     on |-> TRUE]

----------------------------------------------------------------------------
(***************************************************************************)
(* The Enviro object.  A method is an operator from the object (and the    *)
(* arguments) to a result: the object when the call ends, the exception    *)
(* it raised ("" when it returned) and whether it sent an image to the     *)
(* LCD.                                                                    *)
(***************************************************************************)
DEF_ROTATION == 0

DISPL_TOP_BAR == 21

PBAR_HEIGHT == 2

ROTATE_90 == 90

DISPL_SPARKLE == "sparkles"

Rotations == {0, 90, 180, 270}

\* The canvas (self._img) is abstracted to what was drawn last in each
\* region: the main area ("main"), sparkle points on top of it ("points")
\* and the progress bar (<<>> while none is drawn, else <<x>>).
Black == [main |-> <<"black">>, points |-> FALSE, bar |-> <<>>]

\* Before Enviro() has returned there is no object.
NoDevice ==
    [exists |-> FALSE, LCD |-> <<>>, displRotation |-> DEF_ROTATION,
     displProgress |-> TRUE, displayModes |-> <<DISPL_SPARKLE>>,
     displMode |-> DISPL_SPARKLE, displSleepMode |-> FALSE,
     img |-> <<>>, fonts |-> FALSE, shown |-> <<>>]

Ok(d) == [dev |-> d, err |-> "", pushed |-> FALSE, power |-> <<>>]

Raise(d, e) == [dev |-> d, err |-> e, pushed |-> FALSE, power |-> <<>>]

\* r; F(self): the next statement runs unless the one before raised.  (The
\* results are bound as elements of a set, so that each is computed once.)
Then(r, F(_)) ==
    CHOOSE res \in
        {IF v.err # "" THEN v
         ELSE CHOOSE w \in {[n EXCEPT !.pushed = v.pushed \/ n.pushed,
                                      !.power = v.power \o n.power] : n \in {F(v.dev)}} : TRUE
           : v \in {r}} : TRUE

\* Enviro.displayWidth, Enviro.displayHeight
displayWidth(d) == d.LCD[1].width

displayHeight(d) == d.LCD[1].height

\* Enviro.isFake: getattr(self._LCD, 'fake', False)
isFake(d) ==
    "fake" \in d.LCD[1].attrs /\ d.LCD[1].fake

\* Enviro._init_LCD(ROTATION=r): the new LCD, or the exception raised by
\* the lookup ST7735.ST7735.
_init_LCD(fakes, r) ==
    LET drv == Driver("ST7735", "ST7735" \in fakes)
    IN  IF "ST7735" \notin drv.attrs
        THEN [lcd |-> <<>>, err |-> "AttributeError"]
        ELSE [lcd |-> <<LcdObject("ST7735" \in fakes, r)>>, err |-> ""]

\* The settings Enviro() is given: ROTATION and PROGRESS of the config file.
Settings == [ROTATION : Rotations, PROGRESS : BOOLEAN]

\* Enviro.__init__(settings)
__init__(fakes, settings) ==
    LET lcd == _init_LCD(fakes, settings.ROTATION)
    IN  IF lcd.err # "" THEN Raise(NoDevice, lcd.err)
        ELSE Ok([exists |-> TRUE, LCD |-> lcd.lcd,
                 displRotation |-> settings.ROTATION,
                 displProgress |-> settings.PROGRESS,
                 displayModes |-> <<DISPL_SPARKLE>>,
                 displMode |-> DISPL_SPARKLE,
                 displSleepMode |-> FALSE,
                 img |-> <<>>, fonts |-> FALSE, shown |-> <<>>])

\* Enviro.display_init(): a new black image and the fonts.
display_init(d) ==
    Ok([d EXCEPT !.img = <<Black>>, !.fonts = TRUE])

\* Enviro.display_blank()
display_blank(d) ==
    IF ~(isFake(d) \/ d.displSleepMode)
    THEN Ok([d EXCEPT !.img = <<Black>>])
    ELSE Ok(d)

\* self._LCD.display_on() / self._LCD.display_off()
LcdSwitch(d, on) ==
    LET m == IF on THEN "display_on" ELSE "display_off"
        e == CallErr(d.LCD[1], m)
    IN  IF e # "" THEN Raise(d, e)
        ELSE [Ok([d EXCEPT !.LCD = <<[d.LCD[1] EXCEPT !.on = on]>>]) EXCEPT !.power = <<m>>]

\* Enviro.display_on()
display_on(d) ==
    Then(IF ~isFake(d) THEN LcdSwitch(d, TRUE) ELSE Ok(d),
         LAMBDA x : Ok([x EXCEPT !.displSleepMode = FALSE]))

\* Enviro.display_off()
display_off(d) ==
    Then(IF ~isFake(d)
         THEN Then(display_blank(d), LAMBDA x : LcdSwitch(x, FALSE))
         ELSE Ok(d),
         LAMBDA x : Ok([x EXCEPT !.displSleepMode = TRUE]))

\* Enviro.display_reset()
display_reset(d) ==
    IF ~isFake(d) THEN display_init(d) ELSE Ok(d)

\* A sleep mode update that switches the LCD on every call.
update_sleep_mode_always(d, anyArg) ==
    IF anyArg THEN display_off(d) ELSE display_on(d)

\* Enviro.update_sleep_mode(*args): anyArg is any(args).
update_sleep_mode(d, anyArg) ==
    IF anyArg /\ ~d.displSleepMode THEN display_off(d)
    ELSE IF ~anyArg /\ d.displSleepMode THEN display_on(d)
    ELSE Ok(d)

\* The orders list(set(...)) may give the elements of a set: the iteration
\* order of a set of strings is not fixed by the language.
Orders(S) ==
    {f \in [1..Cardinality(S) -> S] : \A i, j \in DOMAIN f : f[i] = f[j] => i = j}

ToSet(seq) == {seq[i] : i \in DOMAIN seq}

\* A registration that appends the new names to the list as they come.
add_displ_modes_appended(d, modes) ==
    {Ok([d EXCEPT !.displayModes = d.displayModes \o modes])}

\* Enviro.add_displ_modes(modes), modes a list of names (a single string is
\* made a list of one): the results the call may have, one for each order
\* list(set(self.displayModes + modes)) may come out in.
add_displ_modes(d, modes) ==
    {Ok([d EXCEPT !.displayModes = o]) : o \in Orders(ToSet(d.displayModes \o modes))}

\* list.index(x), from 0.
IndexOf(seq, x) == (CHOOSE i \in DOMAIN seq : seq[i] = x /\ \A j \in 1..(i - 1) : seq[j] # x) - 1

\* The arguments set_display_mode is called with: a string, an int or None.
StrMode(name) == [type |-> "str", name |-> name, n |-> 0]

IntMode(n) == [type |-> "int", name |-> "", n |-> n]

NoneMode == [type |-> "None", name |-> "", n |-> 0]

\* A mode change that takes any name it is given.
set_display_mode_unchecked(d, mode) ==
    Then(Then(Ok([d EXCEPT !.displMode = IF mode.type = "str" THEN mode.name
                                         ELSE DISPL_SPARKLE]),
              LAMBDA x : IF x.displSleepMode THEN display_on(x) ELSE Ok(x)),
         display_blank)

\* A mode change that leaves the sleep mode alone.
set_display_mode_asleep(d, mode) ==
    display_blank([d EXCEPT !.displMode = DISPL_SPARKLE])

\* A stepping through the views that stops at the first and the last view.
set_display_mode_stopping(d, mode) ==
    LET modes == d.displayModes
        newMode ==
            IF mode.type = "str" /\ mode.name \in ToSet(modes) THEN mode.name
            ELSE IF mode.type = "int"
            THEN LET displMax == Max2(0, Len(modes) - 1)
                     step == IndexOf(modes, d.displMode) + (IF mode.n < 0 THEN -1 ELSE 1)
                     newModeIndx == IF step > displMax THEN displMax
                                    ELSE IF step < 0 THEN 0
                                    ELSE step
                 IN  modes[newModeIndx + 1]
            ELSE DISPL_SPARKLE
        set == IF mode.type = "int" /\ d.displMode \notin ToSet(modes)
               THEN Raise(d, "ValueError")
               ELSE Ok([d EXCEPT !.displMode = newMode])
    IN  Then(Then(set, LAMBDA x : IF x.displSleepMode THEN display_on(x) ELSE Ok(x)),
             display_blank)

\* Enviro.set_display_mode(mode)
set_display_mode(d, mode) ==
    LET modes == d.displayModes
        newMode ==
            IF mode.type = "str" /\ mode.name \in ToSet(modes) THEN mode.name
            ELSE IF mode.type = "int"
            THEN LET displMax == Max2(0, Len(modes) - 1)
                     step == IndexOf(modes, d.displMode) + (IF mode.n < 0 THEN -1 ELSE 1)
                     newModeIndx == IF step > displMax THEN 0
                                    ELSE IF step < 0 THEN displMax
                                    ELSE step
                 IN  modes[newModeIndx + 1]
            ELSE DISPL_SPARKLE
        set == IF mode.type = "int" /\ d.displMode \notin ToSet(modes)
               THEN Raise(d, "ValueError")
               ELSE Ok([d EXCEPT !.displMode = newMode])
    IN  Then(Then(set, LAMBDA x : IF x.displSleepMode THEN display_on(x) ELSE Ok(x)),
             display_blank)

\* A rotation that steps by 90 degrees without wrapping around.
display_rotate_unwrapped(d, fakes, direction, step180) ==
    LET rot == IF direction < 0 THEN d.displRotation - ROTATE_90
               ELSE d.displRotation + ROTATE_90
        lcd == _init_LCD(fakes, rot)
    IN  IF lcd.err # "" THEN Raise([d EXCEPT !.displRotation = rot], lcd.err)
        ELSE display_init([d EXCEPT !.displRotation = rot, !.LCD = lcd.lcd])

\* Enviro.display_rotate(direction, step180)
display_rotate(d, fakes, direction, step180) ==
    IF isFake(d) THEN Ok(d)
    ELSE LET r == d.displRotation
             rot == IF step180 THEN (IF r >= 180 THEN 0 ELSE 180)
                    ELSE IF direction < 0 THEN (IF r <= 0 THEN 270 ELSE r - ROTATE_90)
                    ELSE (IF r >= 270 THEN 0 ELSE r + ROTATE_90)
             lcd == _init_LCD(fakes, rot)
             turned == IF lcd.err # ""
                       THEN Raise([d EXCEPT !.displRotation = rot], lcd.err)
                       ELSE Ok([d EXCEPT !.displRotation = rot, !.LCD = lcd.lcd])
         IN  Then(Then(turned, display_init),
                  LAMBDA x : IF x.displSleepMode THEN display_on(x) ELSE Ok(x))

----------------------------------------------------------------------------
(***************************************************************************)
(* Arithmetic of the rendering code.  A float the code computes by a       *)
(* division is held exactly, as a fraction <<n, d>> with d > 0 (the        *)
(* rounding error of binary floating point is not modelled).               *)
(***************************************************************************)
Frac(n, d) == IF d < 0 THEN <<-n, -d>> ELSE <<n, d>>

FracOfInt(n) == <<n, 1>>

FracLess(a, b) == a[1] * b[2] < b[1] * a[2]

\* max(a, b) and min(a, b) of Python: the first argument unless the second
\* is strictly larger (smaller).
FracMax(a, b) == IF FracLess(a, b) THEN b ELSE a

FracMin(a, b) == IF FracLess(b, a) THEN b ELSE a

\* int(x): truncation towards zero.
PyInt(q) == IF q[1] >= 0 THEN q[1] \div q[2] ELSE -((-q[1]) \div q[2])

\* round(x, 1) of a multiple of 0.1 (unchanged) or of 0.25, which a float
\* holds exactly: the tie goes to the even tenth, so x.25 gives x.2 and
\* x.75 gives x.8.
Round1(x) ==
    CASE x % Unit = 5  -> x - 1
      [] x % Unit = 15 -> x + 1
      [] OTHER         -> x

\* Enviro._scrub(data, default)
_scrub(dataSeq, default) ==
    [i \in 1..Len(dataSeq) |-> IF IsNone(dataSeq[i]) THEN default ELSE dataSeq[i]]

\* Enviro._clamp(val, minVal, maxVal)
_clamp(val, minVal, maxVal) == FracMin(FracMax(minVal, val), maxVal)

\* A scale that runs from the top down.
_scale_inverted(val, minMax, height) ==
    IF minMax[2] = minMax[1] THEN FracOfInt(0)
    ELSE Frac((minMax[2] - val) * height, minMax[2] - minMax[1])

\* Enviro._scale(val, minMax, height), minMax a tuple of two numbers.
_scale(val, minMax, height) ==
    IF minMax[2] = minMax[1] THEN FracOfInt(0)
    ELSE Frac((val - minMax[1]) * height, minMax[2] - minMax[1])

\* Enviro._get_rgb(val), val a fraction in [0, 1]: the colour is kept as its
\* hue, (1.0 - val) * 0.6, in thousandths.
_get_rgb(val) == <<"hue", PyInt(Frac((val[2] - val[1]) * 600, val[2]))>>

\* A colour map as f451Common.get_tri_colors() builds it: a named tuple of
\* three colours.
TriColors == [low |-> "colorMap.low", normal |-> "colorMap.normal", high |-> "colorMap.high"]

\* Enviro._get_rgb_from_map(val, limits, colorMap), colorMap not None.
_get_rgb_from_map(val, limits, colorMap) ==
    IF val > Round1(limits[3]) THEN colorMap.high
    ELSE IF val <= Round1(limits[2]) THEN colorMap.low
    ELSE colorMap.normal

\* all(limits) of a list of numbers.
AllLimits(limits) == \A i \in 1..Len(limits) : limits[i] # 0

SeqMin(sq) == CHOOSE m \in ToSet(sq) : \A x \in ToSet(sq) : m <= x

SeqMax(sq) == CHOOSE m \in ToSet(sq) : \A x \in ToSet(sq) : m >= x

----------------------------------------------------------------------------
(***************************************************************************)
(* Rendering.                                                              *)
(***************************************************************************)

\* self._LCD.display(self._img)
LcdDisplay(d) ==
    LET e == CallErr(d.LCD[1], "display")
    IN  IF e # "" THEN Raise(d, e)
        ELSE [Ok([d EXCEPT !.shown = d.img]) EXCEPT !.pushed = TRUE]

\* self._draw.rectangle((0, 0, displWidth, displHeight - 1 - yProg), ...):
\* the main area is painted over with what `main` says; without a progress
\* bar (yProg = 0) the rectangle covers the rows of the bar as well.
PaintMain(d, main) ==
    [d EXCEPT !.img = <<[main |-> main, points |-> FALSE,
                         bar |-> IF d.displProgress THEN d.img[1].bar ELSE <<>>]>>]

\* A list of values that is filled up behind the samples.
GraphValues_filled_behind(dataSeq, displWidth, default) ==
    LET subSet == _scrub(PySliceFrom(dataSeq, -displWidth), default)
        lenSet == Min2(displWidth, Len(subSet))
    IN  IF lenSet = displWidth THEN subSet
        ELSE subSet \o [i \in 1..(displWidth - lenSet) |-> default]

\* The values display_as_graph plots: the last displWidth values, None
\* replaced by the default, with defaults in front when there are fewer.
GraphValues(dataSeq, displWidth, default) ==
    LET subSet == _scrub(PySliceFrom(dataSeq, -displWidth), default)
        lenSet == Min2(displWidth, Len(subSet))
    IN  IF lenSet = displWidth THEN subSet
        ELSE [i \in 1..(displWidth - lenSet) |-> default] \o subSet

\* Enviro.display_as_graph(data, minMax, colorMap, lblLen, default): minMax
\* is None or a tuple of two numbers, colorMap None or <<a colour map>>.
display_as_graph(d, du, minMax, colorMap, lblLen, default) ==
    IF isFake(d) \/ d.displSleepMode THEN Ok(d)
    ELSE
    LET displWidth == displayWidth(d)
        displHeight == displayHeight(d)
        values == GraphValues(du.data, displWidth, default)
        nums == [i \in 1..Len(values) |-> Val(values[i])]
        yProg == IF d.displProgress THEN PBAR_HEIGHT ELSE 0
        yMin == DISPL_TOP_BAR
        yMax == displHeight - yMin - yProg
        vMin == IF minMax = None THEN SeqMin(nums) ELSE minMax[1]
        vMax == IF minMax = None THEN SeqMax(nums) ELSE minMax[2]
        fitted == [i \in 1..Len(nums) |->
                     PyInt(_clamp(_scale(nums[i], <<vMin, vMax>>, yMax),
                                  FracOfInt(yMin), FracOfInt(yMax)))]
        cleared == PaintMain(d, <<"black">>)
        useMap == AllLimits(du.limits)
        colors == IF useMap
                  THEN [i \in 1..Len(nums) |->
                          _get_rgb_from_map(nums[i], du.limits, colorMap[1])]
                  ELSE [i \in 1..Len(nums) |->
                          _get_rgb(_clamp(Frac(nums[i] - vMin + Unit, vMax - vMin + Unit),
                                          FracOfInt(0), FracOfInt(1)))]
        bars == PaintMain(d, <<"graph", values, fitted, colors, <<>> >>)
        text == PaintMain(d, <<"graph", values, fitted, colors,
                               <<lblLen, values[Len(values)]>> >>)
    IN  IF d.img = <<>> THEN Raise(d, "AttributeError")
        ELSE IF useMap /\ colorMap = None THEN Raise(cleared, "AttributeError")
        ELSE IF ~useMap /\ vMax - vMin + Unit = 0 THEN Raise(cleared, "ZeroDivisionError")
        ELSE IF ~d.fonts THEN Raise(bars, "AttributeError")
        ELSE LcdDisplay(text)

\* One item of the list display_as_text is given.
TextItem(pt, limits, colorMap) == [dataPt |-> pt, limits |-> limits, colorMap |-> colorMap]

COLOR_TXT == "RGB_CHROME"

\* The colours of the first n items, as the loop of display_as_text picks
\* them.
TextColors(items, n) ==
    [i \in 1..n |->
        IF AllLimits(items[i].limits)
        THEN _get_rgb_from_map(items[i].dataPt, items[i].limits, items[i].colorMap[1])
        ELSE COLOR_TXT]

\* Enviro.display_as_text(data, lblLen): data a list of items.
display_as_text(d, items, lblLen) ==
    IF d.displSleepMode THEN Ok(d)
    ELSE IF d.img = <<>> THEN Raise(d, "AttributeError")
    ELSE
    LET bad == {i \in 1..Len(items) : AllLimits(items[i].limits) /\ items[i].colorMap = None}
        stop == IF bad = {} THEN Len(items) + 1
                ELSE CHOOSE i \in bad : \A j \in bad : i <= j
        drawn(n) == PaintMain(d, <<"text", TextColors(items, n),
                                   [i \in 1..n |-> items[i].dataPt]>>)
    IN  IF bad # {} THEN Raise(drawn(stop - 1), "AttributeError")
        ELSE LcdDisplay(drawn(Len(items)))

\* A message that is drawn whatever the sleep mode.
display_message_awake(d, msg) ==
    IF d.img = <<>> THEN Raise(d, "AttributeError")
    ELSE LcdDisplay(PaintMain(d, <<"message", msg.text, IF msg.wide THEN 2 ELSE 1>>))

\* Enviro.display_message(msg, fgCol, bgCol): msg.wide says whether the text
\* is as wide as the display or wider, and is then split in two lines.
display_message(d, msg) ==
    IF d.displSleepMode THEN Ok(d)
    ELSE IF d.img = <<>> THEN Raise(d, "AttributeError")
    ELSE LcdDisplay(PaintMain(d, <<"message", msg.text, IF msg.wide THEN 2 ELSE 1>>))

\* The x the progress bar ends at: int(max(min(float(inFrctn), 1.0), 0.0) * displWidth)
ProgressX_unclamped(inFrctn, displWidth) ==
    PyInt(Frac(inFrctn[1] * displWidth, inFrctn[2]))

ProgressX(inFrctn, displWidth) ==
    LET c == FracMax(FracMin(inFrctn, FracOfInt(1)), FracOfInt(0))
    IN  PyInt(Frac(c[1] * displWidth, c[2]))

\* Enviro.display_progress(inFrctn)
display_progress(d, inFrctn) ==
    IF d.displSleepMode \/ ~d.displProgress THEN Ok(d)
    ELSE IF d.img = <<>> THEN Raise(d, "AttributeError")
    ELSE LcdDisplay([d EXCEPT !.img = <<[d.img[1] EXCEPT
                        !.bar = <<ProgressX(inFrctn, displayWidth(d))>>]>>])

\* Enviro.display_sparkle(): randint(0, maxSparkle) is 0 (`clear`) or not.
display_sparkle(d, clear) ==
    IF d.displSleepMode THEN Ok(d)
    ELSE IF d.img = <<>> THEN Raise(d, "AttributeError")
    ELSE IF clear THEN LcdDisplay(PaintMain(d, <<"black">>))
    ELSE LcdDisplay([d EXCEPT !.img = <<[d.img[1] EXCEPT !.points = TRUE]>>])

----------------------------------------------------------------------------
(***************************************************************************)
(* Sensors.                                                                *)
(***************************************************************************)

\* get_proximity, get_lux, get_pressure, get_humidity, get_temperature,
\* get_gas_data: one call of a method of the driver the object holds.
Getters ==
    {<<"get_proximity", "ltr559">>, <<"get_lux", "ltr559">>,
     <<"get_pressure", "bme280">>, <<"get_humidity", "bme280">>,
     <<"get_temperature", "bme280">>, <<"read_all", "gas">>}

sensor_get(fakes, g) == CallErr(Driver(g[2], g[2] \in fakes), g[1])

\* Enviro.get_CPU_temp(strict): Popen raises FileNotFoundError where there
\* is no vcgencmd.
get_CPU_temp(fakes, strict, vcgencmd) ==
    IF vcgencmd THEN ""
    ELSE IF ~strict THEN sensor_get(fakes, <<"get_temperature", "bme280">>)
    ELSE "FileNotFoundError"

\* What a PMS5003.read() may do.  The mock's read() always returns data.
ReadOutcomes(fakes) ==
    IF "pms5003" \in fakes THEN {"data"}
    ELSE {"data", "ReadTimeoutError", "SerialTimeoutError"}

\* Enviro.get_particles(), with the outcomes of the first and of the second
\* read(): the calls made, and how the call ended.
get_particles(fakes, first, second) ==
    LET sensor == Driver("pms5003", "pms5003" \in fakes)
        calls(reads, sleeps, resets, e) ==
            [reads |-> reads, sleeps |-> sleeps, resets |-> resets, err |-> e,
             first |-> first, second |-> IF reads = 2 THEN second ELSE "none"]
    IN  IF first = "data" THEN calls(1, 0, 0, "")
        ELSE IF first = "ReadTimeoutError"
        THEN IF CallErr(sensor, "reset") # "" THEN calls(1, 1, 0, CallErr(sensor, "reset"))
             ELSE IF second = "data" THEN calls(2, 1, 1, "")
             ELSE calls(2, 1, 1, second)
        ELSE calls(1, 0, 0, "EnviroError")

----------------------------------------------------------------------------
(***************************************************************************)
(* Operations on the Enviro object.                                        *)
(***************************************************************************)
vars == <<dataVars, devVars, colorVars, lastOp, err>>

\* The state a call with arguments `args` leaves: the object, the exception
\* and the push.
Apply(r, name, args) ==
    /\ dev' = r.dev
    /\ err' = r.err
    /\ pushed' = r.pushed
    /\ lastOp' = name
    /\ prior' = [asleep |-> dev.displSleepMode, args |-> args, power |-> r.power]

\* A call from outside the demo application.
CallWith(r, name, args) ==
    /\ Apply(r, name, args)
    /\ UNCHANGED <<drivers, dataVars, colorVars, demo>>

Call(r, name) == CallWith(r, name, <<>>)

\* enviro = Enviro(settings)
Construct(settings) ==
    /\ ~dev.exists
    /\ lastOp # "__init__"
    /\ Call(__init__(drivers, settings), "__init__")
    /\ UNCHANGED <<progLog, pms>>

\* One of the plain sensor getters.
SensorGet(g) ==
    /\ dev.exists
    /\ Call(Raise(dev, sensor_get(drivers, g)), g[1])
    /\ UNCHANGED <<progLog, pms>>

GetCPUTemp(strict, vcgencmd) ==
    /\ dev.exists
    /\ Call(Raise(dev, get_CPU_temp(drivers, strict, vcgencmd)),
            "get_CPU_temp")
    /\ UNCHANGED <<progLog, pms>>

GetParticles(first, second) ==
    /\ dev.exists
    /\ LET r == get_particles(drivers, first, second)
       IN  /\ Call(Raise(dev, r.err), "get_particles")
           /\ pms' = <<r>>
    /\ UNCHANGED progLog

AddDisplModes(modes) ==
    /\ dev.exists
    /\ \E r \in add_displ_modes(dev, modes) : CallWith(r, "add_displ_modes", <<modes>>)
    /\ UNCHANGED <<progLog, pms>>

SetDisplayMode(mode) ==
    /\ dev.exists
    /\ CallWith(set_display_mode(dev, mode), "set_display_mode", <<mode>>)
    /\ UNCHANGED <<progLog, pms>>

UpdateSleepMode(anyArg) ==
    /\ dev.exists
    /\ CallWith(update_sleep_mode(dev, anyArg), "update_sleep_mode", <<anyArg>>)
    /\ UNCHANGED <<progLog, pms>>

DisplayInit ==
    /\ dev.exists
    /\ Call(display_init(dev), "display_init")
    /\ UNCHANGED <<progLog, pms>>

DisplayRotate(direction, step180) ==
    /\ dev.exists
    /\ CallWith(display_rotate(dev, drivers, direction, step180), "display_rotate",
                <<direction, step180>>)
    /\ UNCHANGED <<progLog, pms>>

DisplayOn ==
    /\ dev.exists
    /\ Call(display_on(dev), "display_on")
    /\ UNCHANGED <<progLog, pms>>

DisplayOff ==
    /\ dev.exists
    /\ Call(display_off(dev), "display_off")
    /\ UNCHANGED <<progLog, pms>>

DisplayBlank ==
    /\ dev.exists
    /\ Call(display_blank(dev), "display_blank")
    /\ UNCHANGED <<progLog, pms>>

DisplayReset ==
    /\ dev.exists
    /\ Call(display_reset(dev), "display_reset")
    /\ UNCHANGED <<progLog, pms>>

DisplayAsGraph(du, minMax, colorMap, lblLen) ==
    /\ dev.exists
    /\ CallWith(display_as_graph(dev, du, minMax, colorMap, lblLen, Num(0)),
                "display_as_graph", <<minMax, colorMap>>)
    /\ UNCHANGED <<progLog, pms>>

DisplayAsText(items, lblLen) ==
    /\ dev.exists
    /\ Call(display_as_text(dev, items, lblLen), "display_as_text")
    /\ UNCHANGED <<progLog, pms>>

DisplayMessage(msg) ==
    /\ dev.exists
    /\ Call(display_message(dev, msg), "display_message")
    /\ UNCHANGED <<progLog, pms>>

\* display_progress(inFrctn); a call that draws is logged with its x.
DisplayProgress(inFrctn) ==
    /\ dev.exists
    /\ LET r == display_progress(dev, inFrctn)
       IN  /\ Call(r, "display_progress")
           /\ progLog' = IF r.pushed
                         THEN PySliceFrom(progLog, -1) \o <<<<inFrctn, r.dev.img[1].bar[1]>>>>
                         ELSE progLog
    /\ UNCHANGED pms

DisplaySparkle(clear) ==
    /\ dev.exists
    /\ Call(display_sparkle(dev, clear), "display_sparkle")
    /\ UNCHANGED <<progLog, pms>>

\* enviro.displProgress = <flag>, as main() of the demo sets it.
SetDisplProgress(flag) ==
    /\ dev.exists
    /\ Call(Ok([dev EXCEPT !.displProgress = flag]), "displProgress")
    /\ UNCHANGED <<progLog, pms>>

----------------------------------------------------------------------------
(***************************************************************************)
(* Specification of a data series: samples are appended, prep_data makes   *)
(* the copy to render and display_as_graph renders it, on a device that    *)
(* was constructed with the vendor drivers and initialised.                *)
(***************************************************************************)
DISPL_LBL_LEN == 4

\* The object after enviro = Enviro(config); enviro.display_init()
ReadyDevice(progress) ==
    display_init(__init__({}, [ROTATION |-> DEF_ROTATION, PROGRESS |-> progress]).dev).dev

\* update_Enviro_LCD._minMax(data)
_minMax(dataSeq) ==
    LET scrubbed == {Val(dataSeq[i]) : i \in {j \in DOMAIN dataSeq : ~IsNone(dataSeq[j])}}
    IN  IF scrubbed = {} THEN <<0, 0>>
        ELSE <<CHOOSE m \in scrubbed : \A x \in scrubbed : m <= x,
               CHOOSE m \in scrubbed : \A x \in scrubbed : m >= x>>

NoColor == /\ cLimits = <<0, 0, 0, 0>>
           /\ cVal = 0
           /\ cColor = ""

DeviceUnused ==
    /\ drivers = {}
    /\ dev = NoDevice
    /\ pushed = FALSE
    /\ progLog = <<>>
    /\ prior = NoCall
    /\ demo = NoDemo
    /\ pms = <<>>

\* The series alone: any series, any lenSlice.
InitSpecSeries ==
    /\ InitData(SeriesNames)
    /\ DeviceUnused
    /\ NoColor
    /\ lastOp = "init"
    /\ err = ""

NextSpecSeries ==
    \/ \E x \in Samples(series) : AppendSample(x)
    \/ \E k \in LenSlices : PrepData(k)

SpecSeries == InitSpecSeries /\ [][NextSpecSeries]_vars

\* The series of the demo (DemoData), rendered as update_Enviro_LCD does.
DemoSeries == {"rndnum", "rndpcnt"}

InitSpecData ==
    /\ InitData(DemoSeries)
    /\ drivers = {}
    /\ \E progress \in BOOLEAN : dev = ReadyDevice(progress)
    /\ pushed = FALSE
    /\ progLog = <<>>
    /\ prior = NoCall
    /\ demo = NoDemo
    /\ pms = <<>>
    /\ NoColor
    /\ lastOp = "init"
    /\ err = ""

NextSpecData ==
    \/ \E x \in Samples(series) : AppendSample(x)
    \/ \E k \in LenSlices : PrepData(k)
    \/ /\ dataClean # <<>>
       /\ \E minMax \in {None, _minMax(data)} :
             DisplayAsGraph(dataClean[1], minMax,
                            IF AllLimits(dataClean[1].limits) THEN <<TriColors>> ELSE None,
                            DISPL_LBL_LEN)

SpecData == InitSpecData /\ [][NextSpecData]_vars

\* The slice the last prep_data call was given, its valid tuple and the
\* data it returned.
SliceIn == PySliceFrom(data, -lenSlice)

CleanOut == dataClean[1].data

\* x is a number outside the range `valid` gives (below a bound that is set,
\* or above one).
OutsideRange(x, valid) ==
    /\ ~IsNone(x)
    /\ valid # None
    /\ \/ ~IsNone(valid[1]) /\ Val(x) < Val(valid[1])
       \/ ~IsNone(valid[2]) /\ Val(x) > Val(valid[2])

\* x is a number inside the range `valid` gives; no range is no constraint.
InsideRange(x, valid) ==
    /\ ~IsNone(x)
    /\ \/ valid = None
       \/ /\ IsNone(valid[1]) \/ Val(x) >= Val(valid[1])
          /\ IsNone(valid[2]) \/ Val(x) <= Val(valid[2])

\* C1: in the data prep_data returns, every sample that lies outside the
\* series' valid (min, max) range is replaced by 0, whatever the bounds are
\* (a lower bound of 0, only one bound set).
C1_OutOfRangeReplaced ==
    lastOp = "prep_data" =>
        \A i \in 1..Len(SliceIn) :
            OutsideRange(SliceIn[i], Valid(series)) => CleanOut[i] = Num(0)

\* C2: prep_data is the identity on in-range samples: the data it returns
\* is as long as the slice it took, and holds every sample inside the valid
\* range (or of a series without range) unchanged at the same position.
C2_InRangeKept ==
    lastOp = "prep_data" =>
        /\ Len(CleanOut) = Len(SliceIn)
        /\ \A i \in 1..Len(SliceIn) :
              InsideRange(SliceIn[i], Valid(series)) => CleanOut[i] = SliceIn[i]

\* A prep_data call that kept an in-range sample of a series with both
\* bounds set, and replaced another sample.
C2_Witness ==
    /\ lastOp = "prep_data"
    /\ PyAll(Valid(series))
    /\ \E i, j \in 1..Len(SliceIn) :
          /\ InsideRange(SliceIn[i], Valid(series))
          /\ CleanOut[i] = SliceIn[i]
          /\ CleanOut[j] # SliceIn[j]

\* The last n values of a sequence.
LastN(sq, n) == SubSeq(sq, Len(sq) - n + 1, Len(sq))

\* C3: scrubbing never changes the collected history: in every state, after
\* any number of prep_data and display_as_graph calls, the stored window
\* holds exactly the values that were put into it, out-of-range and None
\* samples included.
C3_HistoryKept ==
    data = LastN(hist, maxLen)

\* A graph was rendered from a scrubbed copy that differs from the stored
\* window, which has rolled over and still holds a None or out-of-range
\* sample.
C3_Witness ==
    /\ lastOp = "display_as_graph"
    /\ pushed
    /\ Len(hist) > maxLen
    /\ CleanOut # SliceIn
    /\ \E i \in 1..Len(data) :
          IsNone(data[i]) \/ OutsideRange(data[i], Valid(series))

\* C4: every series is a fixed-length rolling window: it is created holding
\* maxLen copies of the default value, its length is maxLen in every state,
\* and appending x to the window w yields w[1:] followed by x.
C4_RollingWindow ==
    /\ [](/\ Len(data) = maxLen
          /\ lastOp = "init" => \A i \in 1..maxLen : data[i] = defVal)
    /\ [][hist' # hist => data' = Tail(data) \o <<hist'[Len(hist')]>>]_vars

\* A sample other than the default was appended to a window that was full
\* of appended samples already.
C4_Witness ==
    /\ lastOp = "append"
    /\ Len(hist) > 2 * maxLen
    /\ data[Len(data)] # defVal

----------------------------------------------------------------------------
(***************************************************************************)
(* Specification of the colour selection: _get_rgb_from_map applied to a   *)
(* limits list and a reading.                                              *)
(***************************************************************************)

\* Ordered lists of 4 thresholds on a grid of quarters, and the limits of
\* the series.
LimitLists ==
    LET grid == {5 * k : k \in (-1)..ThresholdSteps}
    IN  {l \in [1..4 -> grid] : l[1] <= l[2] /\ l[2] <= l[3] /\ l[3] <= l[4]}
        \cup {Limits(s) : s \in SeriesNames}

\* Readings at and next to each threshold, in steps of 0.05.
Readings(limits) ==
    UNION {{limits[i] - 2, limits[i] - 1, limits[i], limits[i] + 1, limits[i] + 2} :
              i \in 1..4}

InitSpecColor ==
    /\ cLimits \in LimitLists
    /\ cVal = 0
    /\ cColor = ""
    /\ InitData({"rndnum"})
    /\ maxLen = 1
    /\ defVal = None
    /\ DeviceUnused
    /\ lastOp = "init"
    /\ err = ""

\* colour = Enviro._get_rgb_from_map(v, limits, colorMap)
SelectColor(v) ==
    /\ cVal' = v
    /\ cColor' = _get_rgb_from_map(v, cLimits, TriColors)
    /\ lastOp' = "_get_rgb_from_map"
    /\ err' = ""
    /\ UNCHANGED <<cLimits, dataVars, devVars>>

NextSpecColor == \E v \in Readings(cLimits) : SelectColor(v)

SpecColor == InitSpecColor /\ [][NextSpecColor]_vars

\* C5: for every limits list with limits[1] <= limits[2] and every value
\* above limits[2], the band selected is 'high' (never 'normal' or 'low'),
\* whatever the fractional digits of limits[2].
C5_AboveThresholdIsHigh ==
    (/\ lastOp = "_get_rgb_from_map"
     /\ cLimits[2] <= cLimits[3]
     /\ cVal > cLimits[3]) => cColor = TriColors.high

\* The severity band of a reading: the 4 thresholds cut the readings in 5.
Band5(v, limits) ==
    IF v <= limits[1] THEN "dangerously-low"
    ELSE IF v <= limits[2] THEN "low"
    ELSE IF v <= limits[3] THEN "normal"
    ELSE IF v <= limits[4] THEN "high"
    ELSE "dangerously-high"

\* The band a colour of the colour map stands for.
BandOfColor(c) ==
    CASE c = TriColors.low    -> "low"
      [] c = TriColors.normal -> "normal"
      [] c = TriColors.high   -> "high"
      [] OTHER                -> "none"

\* C6: the colour chosen for a reading tells which of the five severity
\* bands the reading falls into.
C6_ColorIsFiveBand ==
    lastOp = "_get_rgb_from_map" => BandOfColor(cColor) = Band5(cVal, cLimits)

----------------------------------------------------------------------------
(***************************************************************************)
(* Specification of the progress bar, on a device that was constructed     *)
(* with the vendor drivers and initialised.                                *)
(***************************************************************************)
Fractions == {<<n, FracDen>> : n \in (-2)..(FracDen + 2)}

InitSpecProgress ==
    /\ drivers = {}
    /\ \E progress \in BOOLEAN : dev = ReadyDevice(progress)
    /\ pushed = FALSE
    /\ progLog = <<>>
    /\ prior = NoCall
    /\ demo = NoDemo
    /\ pms = <<>>
    /\ InitData({"rndnum"})
    /\ maxLen = 1
    /\ defVal = None
    /\ NoColor
    /\ lastOp = "init"
    /\ err = ""

NextSpecProgress ==
    \/ \E f \in Fractions : DisplayProgress(f)
    \/ \E anyArg \in BOOLEAN : UpdateSleepMode(anyArg)
    \/ \E flag \in BOOLEAN : SetDisplProgress(flag)

SpecProgress == InitSpecProgress /\ [][NextSpecProgress]_vars

\* C7: display_progress clamps the fraction to [0.0, 1.0] before scaling:
\* the bar of every call ends at an x with 0 <= x <= displayWidth, at 0 for
\* fractions <= 0 and at displayWidth for fractions >= 1, and of two calls
\* the one with the larger fraction has the larger or the same x.
C7_ProgressClamped ==
    LET w == displayWidth(dev)
        f(i) == progLog[i][1]
        x(i) == progLog[i][2]
    IN  /\ \A i \in 1..Len(progLog) :
              /\ 0 <= x(i) /\ x(i) <= w
              /\ f(i)[1] <= 0 => x(i) = 0
              /\ f(i)[1] >= f(i)[2] => x(i) = w
        /\ \A i, j \in 1..Len(progLog) :
              f(i)[1] * f(j)[2] <= f(j)[1] * f(i)[2] => x(i) <= x(j)

\* Two calls drew a bar: one with a negative fraction, then one with a
\* fraction above 1.
C7_Witness ==
    /\ lastOp = "display_progress"
    /\ pushed
    /\ Len(progLog) = 2
    /\ progLog[1][1][1] < 0
    /\ progLog[2][1][1] > progLog[2][1][2]
    /\ progLog[2][2] > progLog[1][2]

----------------------------------------------------------------------------
(***************************************************************************)
(* Specification of the Enviro object under each outcome of the driver     *)
(* imports: the object is constructed and its sensor and display           *)
(* operations are called in any order.                                     *)
(***************************************************************************)

\* The outcomes of the imports: the set of modules that were not importable
\* and are replaced by the classes of fake_HAT.py.
DriverSets == {{}, {"ltr559", "gas"}, {"pms5003"}, {"ST7735"}, Modules}

DemoUnit == DataUnit(<<Num(Q(50)), None, Num(Q(100))>>, "rndnum")

DemoItems ==
    <<TextItem(Q(50), Limits("rndnum"), <<TriColors>>),
      TextItem(Q(1), Limits("light"), None)>>

InitSpecDevice ==
    /\ drivers \in DriverSets
    /\ dev = NoDevice
    /\ pushed = FALSE
    /\ progLog = <<>>
    /\ prior = NoCall
    /\ demo = NoDemo
    /\ pms = <<>>
    /\ InitData({"rndnum"})
    /\ maxLen = 1
    /\ defVal = None
    /\ NoColor
    /\ lastOp = "import"
    /\ err = ""

NextSpecDevice ==
    \/ \E progress \in BOOLEAN :
          Construct([ROTATION |-> DEF_ROTATION, PROGRESS |-> progress])
    \/ \E g \in Getters : SensorGet(g)
    \/ \E strict, vcgencmd \in BOOLEAN : GetCPUTemp(strict, vcgencmd)
    \/ \E first, second \in ReadOutcomes(drivers) : GetParticles(first, second)
    \/ \E mode \in {StrMode("rndpcnt"), IntMode(1), NoneMode} : SetDisplayMode(mode)
    \/ DisplayInit
    \/ \E direction \in {-1, 1} : DisplayRotate(direction, FALSE)
    \/ DisplayOn
    \/ DisplayOff
    \/ DisplayBlank
    \/ DisplayReset
    \/ DisplayAsGraph(DemoUnit, None, <<TriColors>>, DISPL_LBL_LEN)
    \/ DisplayAsText(DemoItems, DISPL_LBL_LEN)
    \/ DisplayMessage([text |-> "hello", wide |-> FALSE])
    \/ DisplayProgress(<<1, 2>>)
    \/ DisplaySparkle(TRUE)

SpecDevice == InitSpecDevice /\ [][NextSpecDevice]_vars

\* C8: get_particles handles a timeout of the first read with exactly one
\* retry: one wait, one reset, one more read and no third; when the second
\* read succeeds the call returns its data, and when it fails too the call
\* ends in EnviroError.
C8_OneRetryThenEnviroError ==
    (lastOp = "get_particles" /\ pms # <<>> /\ pms[1].first = "ReadTimeoutError") =>
        /\ pms[1].sleeps = 1
        /\ pms[1].resets = 1
        /\ pms[1].reads = 2
        /\ pms[1].second = "data" => err = ""
        /\ pms[1].second # "data" => err = "EnviroError"

\* C9: when the vendor drivers are not importable and the mock driver set
\* is substituted, constructing Enviro and calling any sensor getter or
\* display operation raises no error.
C9_MockRunsClean ==
    drivers = Modules => err = ""

\* C10: once Enviro() was called there is an object whose isFake is True
\* exactly when it uses the mock LCD driver and False exactly when it uses
\* the physical one, and no later operation changes that.
C10_IsFakeTellsMock ==
    lastOp # "import" =>
        /\ dev.exists
        /\ isFake(dev) <=> ("ST7735" \in drivers)

----------------------------------------------------------------------------
(***************************************************************************)
(* Specification of the rotation of the display: the object is constructed *)
(* with each ROTATION setting and rotated in any way.                      *)
(***************************************************************************)
APP_NAME == [text |-> "f451 Labs - Enviro+ Demo", wide |-> TRUE]

InitSpecRotate ==
    /\ DeviceUnused
    /\ InitData({"rndnum"})
    /\ maxLen = 1
    /\ defVal = None
    /\ NoColor
    /\ lastOp = "import"
    /\ err = ""

NextSpecRotate ==
    \/ \E settings \in Settings : Construct(settings)
    \/ DisplayInit
    \/ \E direction \in {-1, 0, 1}, step180 \in BOOLEAN : DisplayRotate(direction, step180)
    \/ \E anyArg \in BOOLEAN : UpdateSleepMode(anyArg)
    \/ DisplayMessage(APP_NAME)

SpecRotate == InitSpecRotate /\ [][NextSpecRotate]_vars

\* C14: the display rotation is always one of 0, 90, 180, 270: after any
\* sequence of display_rotate calls (any sign of direction, step180 true or
\* false) displRotation is in that set and the LCD was re-initialised with
\* exactly that rotation.
C14_RotationInSet ==
    dev.exists =>
        /\ dev.displRotation \in Rotations
        /\ dev.LCD[1].rotation = dev.displRotation
        /\ lastOp = "display_rotate" =>
              /\ err = ""
              /\ dev.LCD[1] = LcdObject(FALSE, dev.displRotation)

\* A rotation to the left from 0 wrapped around to 270.
C14_Witness ==
    /\ lastOp = "display_rotate"
    /\ prior.args = <<-1, FALSE>>
    /\ dev.displRotation = 270
    /\ dev.LCD[1].rotation = 270

----------------------------------------------------------------------------
(***************************************************************************)
(* Specification of the view modes: view names are registered and the mode *)
(* is set, awake and asleep.                                               *)
(***************************************************************************)
APP_DISPL_MODES == <<"rndnum", "rndpcnt">>

\* The arguments of set_display_mode: a name that may be registered, one
\* that never is, an integer of either sign or 0, and None.
ModeArgs ==
    {StrMode("rndpcnt"), StrMode("no-such-view"),
     IntMode(1), IntMode(-1), IntMode(0), NoneMode}

InitSpecModes ==
    /\ DeviceUnused
    /\ InitData({"rndnum"})
    /\ maxLen = 1
    /\ defVal = None
    /\ NoColor
    /\ lastOp = "import"
    /\ err = ""

NextSpecModes ==
    \/ \E progress \in BOOLEAN :
          Construct([ROTATION |-> DEF_ROTATION, PROGRESS |-> progress])
    \/ DisplayInit
    \/ \E modes \in {APP_DISPL_MODES, <<"rndnum">>} : AddDisplModes(modes)
    \/ \E mode \in ModeArgs : SetDisplayMode(mode)
    \/ \E anyArg \in BOOLEAN : UpdateSleepMode(anyArg)
    \/ DisplayMessage(APP_NAME)

SpecModes == InitSpecModes /\ [][NextSpecModes]_vars

\* C15: the current view mode is always a registered view name: after any
\* sequence of add_displ_modes and set_display_mode calls displMode is an
\* element of displayModes, and 'sparkles' is always an element of
\* displayModes.
C15_ModeIsRegistered ==
    dev.exists =>
        /\ dev.displMode \in ToSet(dev.displayModes)
        /\ DISPL_SPARKLE \in ToSet(dev.displayModes)

\* With three views registered, set_display_mode was given a name that is
\* not registered and fell back to 'sparkles'.
C15_Witness ==
    /\ lastOp = "set_display_mode"
    /\ prior.args = <<StrMode("no-such-view")>>
    /\ Len(dev.displayModes) = 3
    /\ dev.displMode = DISPL_SPARKLE

\* C16: set_display_mode wakes the display: whatever the argument and the
\* sleep state before the call, when it returns displSleepMode is false,
\* the LCD is on (switched on by the call when it was asleep) and the
\* canvas is blank.
C16_SetModeWakes ==
    lastOp = "set_display_mode" =>
        /\ err = ""
        /\ ~dev.displSleepMode
        /\ dev.LCD[1].on
        /\ prior.power = IF prior.asleep THEN <<"display_on">> ELSE <<>>
        /\ dev.img = <<Black>>

\* set_display_mode was called while the display was asleep.
C16_Witness ==
    /\ lastOp = "set_display_mode"
    /\ prior.asleep
    /\ ~dev.displSleepMode
    /\ dev.img = <<Black>>

----------------------------------------------------------------------------
(***************************************************************************)
(* Specification of the sleep mode: the display is sent to sleep and woken *)
(* up, and every rendering operation is called in both states.             *)
(***************************************************************************)

\* Two items for display_as_text: one coloured by its limits, one without
\* limits.
DemoText ==
    <<TextItem(Q(50), Limits("rndnum"), <<TriColors>>),
      TextItem(Q(1), <<0, 0, 0, 0>>, None)>>

InitSpecSleep ==
    /\ DeviceUnused
    /\ InitData({"rndnum"})
    /\ maxLen = 1
    /\ defVal = None
    /\ NoColor
    /\ lastOp = "import"
    /\ err = ""

NextSpecSleep ==
    \/ \E progress \in BOOLEAN :
          Construct([ROTATION |-> DEF_ROTATION, PROGRESS |-> progress])
    \/ DisplayInit
    \/ \E anyArg \in BOOLEAN : UpdateSleepMode(anyArg)
    \/ DisplayOn
    \/ DisplayOff
    \/ DisplayBlank
    \/ DisplayAsGraph(DemoUnit, None, <<TriColors>>, DISPL_LBL_LEN)
    \/ DisplayAsText(DemoText, DISPL_LBL_LEN)
    \/ DisplayMessage(APP_NAME)
    \/ DisplayProgress(<<1, 2>>)
    \/ \E clear \in BOOLEAN : DisplaySparkle(clear)

SpecSleep == InitSpecSleep /\ [][NextSpecSleep]_vars

\* C17: update_sleep_mode sets the sleep flag from its arguments: when it
\* returns displSleepMode is true if and only if at least one argument is
\* true, for every sleep state before the call; when the flag had that value
\* already the call makes no display_on / display_off and draws nothing.
C17_SleepFlagFollowsArgs ==
    lastOp = "update_sleep_mode" =>
        /\ err = ""
        /\ dev.displSleepMode <=> prior.args[1]
        /\ dev.LCD[1].on <=> ~prior.args[1]
        /\ (prior.asleep <=> prior.args[1]) => (prior.power = <<>> /\ ~pushed)
        /\ (prior.asleep /\ ~prior.args[1]) => prior.power = <<"display_on">>
        /\ (~prior.asleep /\ prior.args[1]) => prior.power = <<"display_off">>

\* A sleeping display was told to sleep again, and did nothing.
C17_Witness ==
    /\ lastOp = "update_sleep_mode"
    /\ prior.asleep
    /\ prior.args = <<TRUE>>
    /\ dev.displSleepMode
    /\ prior.power = <<>>

\* The operations that render.
RenderOps ==
    {"display_as_graph", "display_as_text", "display_message",
     "display_progress", "display_sparkle", "display_blank"}

\* C18: while the display is in sleep mode nothing is rendered: called with
\* displSleepMode true, display_as_graph, display_as_text, display_message,
\* display_progress, display_sparkle and display_blank return without
\* changing the canvas (or anything else of the object) and without pushing
\* an image to the LCD.
C18_NothingRenderedAsleep ==
    [][(dev.displSleepMode /\ lastOp' \in RenderOps) =>
          (dev' = dev /\ ~pushed' /\ err' = "")]_vars

\* display_as_graph was called on a sleeping display.
C18_Witness ==
    /\ lastOp = "display_as_graph"
    /\ prior.asleep
    /\ dev.displSleepMode
    /\ ~pushed

----------------------------------------------------------------------------
(***************************************************************************)
(* Specification of the graph scaling: display_as_graph applied to a       *)
(* window of values and a minMax argument.                                 *)
(***************************************************************************)

\* The values of a window: None and numbers from 0 to 150.
GraphSamples == {None, Num(Q(0)), Num(Q(50)), Num(Q(100)), Num(Q(150))}

\* The minMax arguments: None, or any pair of the numbers (ordered or not).
MinMaxArgs ==
    LET nums == {Val(x) : x \in GraphSamples \ {None}}
    IN  {None} \cup (nums \X nums)

InitSpecScale ==
    /\ series = "rndnum"
    /\ maxLen = LcdWidth
    /\ defVal = None
    /\ data \in [1..LcdWidth -> GraphSamples]
    /\ hist = data
    /\ dataClean = <<>>
    /\ lenSlice = 0
    /\ drivers = {}
    /\ \E progress \in BOOLEAN : dev = ReadyDevice(progress)
    /\ pushed = FALSE
    /\ progLog = <<>>
    /\ prior = NoCall
    /\ demo = NoDemo
    /\ pms = <<>>
    /\ NoColor
    /\ lastOp = "init"
    /\ err = ""

NextSpecScale ==
    \E minMax \in MinMaxArgs :
        DisplayAsGraph(DataUnit(data, series), minMax, <<TriColors>>, DISPL_LBL_LEN)

SpecScale == InitSpecScale /\ [][NextSpecScale]_vars

\* The values the graph on the canvas plots and the heights they got.
GraphPlotted == dev.img[1].main[2]

GraphFitted == dev.img[1].main[3]

\* C20: graph scaling is monotonic: within one display_as_graph call with
\* vMin <= vMax, for any two values a <= b of the window the heights
\* satisfy fitted(a) <= fitted(b).
C20_ScalingMonotonic ==
    (/\ lastOp = "display_as_graph"
     /\ pushed
     /\ prior.args[1] # None => prior.args[1][1] <= prior.args[1][2]) =>
        \A i, j \in DOMAIN GraphPlotted :
            Val(GraphPlotted[i]) <= Val(GraphPlotted[j]) => GraphFitted[i] <= GraphFitted[j]

\* A graph with two different heights above the lowest one.
C20_Witness ==
    /\ lastOp = "display_as_graph"
    /\ pushed
    /\ prior.args[1] # None
    /\ prior.args[1][1] < prior.args[1][2]
    /\ \E i, j \in DOMAIN GraphPlotted :
          /\ Val(GraphPlotted[i]) < Val(GraphPlotted[j])
          /\ DISPL_TOP_BAR < GraphFitted[i]
          /\ GraphFitted[i] < GraphFitted[j]

----------------------------------------------------------------------------
(***************************************************************************)
(* The demo application, en_demo.py: main() sets the device up, main_loop  *)
(* reads, uploads and renders until exitApp, and main() cleans up.  The    *)
(* clock counts whole seconds and advances where the code sleeps.  The     *)
(* device has the vendor drivers.                                          *)
(***************************************************************************)
APP_MIN_SENSOR_READ_WAIT == 1

APP_MIN_PROG_WAIT == 1

APP_WAIT_1SEC == 1

APP_TOPLBL_LEN == 5

\* time.sleep(5) of send_data, and of main() behind the start-up message.
SEND_DATA_SLEEP == 5

MAIN_SLEEP == 5

DEF_SLEEP == 600

PROX_LIMIT == 1500

\* 0.2
PROX_DEBOUNCE == <<1, 5>>

\* The clock stops the run at MaxTime seconds.
MaxTime == 18

\* The KeyboardInterrupts delivered to one run.
MaxInterrupts == 1

\* What the command line and the settings file may say.  dmode is
\* cliArgs.dmode or config.get(KWD_DISPLAY); SLEEP, FREQ, DELAY and WAIT are
\* the settings of those names.  The progress bar is on (--progress), so
\* that display_progress has something to draw.
DemoConfigs ==
    [noLCD : BOOLEAN, progress : {TRUE}, uploads : {-1, 1, 2},
     dmode : {NoneMode, StrMode("rndpcnt")},
     SLEEP : {7, DEF_SLEEP}, FREQ : {2}, DELAY : {2}, WAIT : {2}]

\* What get_demo_data(2) and get_proximity() may return in one read.
DemoReadings ==
    [rndnum : {Num(Q(100))}, rndpcnt : {Num(Q(50))},
     proximity : {PROX_LIMIT, PROX_LIMIT + 1}]

\* AppRT.init_runtime(cliArgs, data), after appData = DemoData(None, ...):
\* the runtime values, the data queues, and main()'s position.
init_runtime(cfg) ==
    [pc |-> "add_sensor", now |-> 0, intr |-> 0,
     noLCD |-> cfg.noLCD, progress |-> cfg.progress, dmode |-> cfg.dmode,
     displSleepTime |-> cfg.SLEEP,
     ioFreq |-> cfg.FREQ, ioDelay |-> cfg.DELAY,
     ioWait |-> Max2(cfg.WAIT, APP_MIN_SENSOR_READ_WAIT),
     timeSinceUpdate |-> 0, timeUpdate |-> 0, displayUpdate |-> 0,
     uploadDelay |-> cfg.DELAY, maxUploads |-> cfg.uploads, numUploads |-> 0,
     loopWait |-> APP_WAIT_1SEC,
     exitApp |-> FALSE, waitForSensor |-> 0, timeCurrent |-> 0,
     newData |-> [rndnum |-> None, rndpcnt |-> None], proximity |-> 0,
     retExit |-> FALSE,
     rndnum |-> DequeFill(None, MaxLen), rndpcnt |-> DequeFill(None, MaxLen)]

\* collect_data's finally clause: (app.maxUploads > 0) and
\* (app.numUploads >= app.maxUploads)
uploads_done_late(maxUploads, numUploads) ==
    maxUploads > 0 /\ numUploads > maxUploads

uploads_done(maxUploads, numUploads) ==
    maxUploads > 0 /\ numUploads >= maxUploads

\* A loop that leaves the sleep mode as it is.
main_loop_sleep_mode_kept(d, timeCurrent, displayUpdate, displSleepTime) ==
    Ok(d)

\* main_loop's update_sleep_mode((timeCurrent - app.displayUpdate) >
\* displSleepTime, displSleepMode)
main_loop_sleep_mode(d, timeCurrent, displayUpdate, displSleepTime) ==
    update_sleep_mode(d, (timeCurrent - displayUpdate) > displSleepTime
                         \/ d.displSleepMode)

\* update_Enviro_LCD_display_mode(app, timeCurrent, proximity): the device
\* call's result and app.displayUpdate.
update_Enviro_LCD_display_mode(d, displayUpdate, timeCurrent, proximity) ==
    IF /\ proximity > PROX_LIMIT
       /\ FracLess(PROX_DEBOUNCE, FracOfInt(timeCurrent - displayUpdate))
    THEN LET r == Then(set_display_mode(d, IntMode(1)),
                       LAMBDA x : update_sleep_mode(x, FALSE))
         IN  [r |-> r,
              displayUpdate |-> IF r.err = "" THEN timeCurrent ELSE displayUpdate]
    ELSE [r |-> Ok(d), displayUpdate |-> displayUpdate]

\* update_Enviro_LCD(enviro, data); `clear` is display_sparkle's draw.
update_Enviro_LCD(d, rndnum, rndpcnt, clear) ==
    LET graph(w, s) ==
            CHOOSE r \in
                {display_as_graph(d, clean, minMax,
                                  IF AllLimits(clean.limits) THEN <<TriColors>> ELSE None,
                                  APP_TOPLBL_LEN, Num(0)) :
                    minMax \in {_minMax(w)},
                    clean \in {prep_data(DataUnit(w, s), 0).ret}} : TRUE
    IN  IF d.displMode = "rndnum" THEN graph(rndnum, "rndnum")
        ELSE IF d.displMode = "rndpcnt" THEN graph(rndpcnt, "rndpcnt")
        ELSE display_sparkle(d, clear)

\* One step of the demo: the calls it made on the device and the
\* application's state after it.  An exception other than KeyboardInterrupt
\* ends the run with a traceback.
DemoStep(r, name, next) ==
    \E v \in {r} :
        /\ Apply(v, name, <<>>)
        /\ demo' = IF v.err = "" THEN next
                   ELSE [demo EXCEPT !.pc = "crash", !.intr = next.intr]
        /\ UNCHANGED <<drivers, dataVars, colorVars, progLog, pms>>

\* A step of the demo that makes no call on the device.
DemoSkip(next) ==
    /\ demo' = next
    /\ UNCHANGED <<drivers, dev, pushed, progLog, pms, prior, dataVars, colorVars,
                   lastOp, err>>

InitSpecDemo ==
    /\ series = "rndnum"
    /\ maxLen = MaxLen
    /\ defVal = None
    /\ data = DequeFill(None, MaxLen)
    /\ hist = data
    /\ dataClean = <<>>
    /\ lenSlice = 0
    /\ drivers = {}
    /\ dev = NoDevice
    /\ pushed = FALSE
    /\ progLog = <<>>
    /\ prior = NoCall
    /\ pms = <<>>
    /\ \E cfg \in DemoConfigs : demo = init_runtime(cfg)
    /\ NoColor
    /\ lastOp = "init"
    /\ err = ""

\* appRT.add_sensor('Enviro', f451Enviro.Enviro)
MainAddSensor ==
    /\ demo.pc = "add_sensor"
    /\ DemoStep(__init__(drivers, [ROTATION |-> DEF_ROTATION, PROGRESS |-> TRUE]),
                "__init__", [demo EXCEPT !.pc = "display_init"])

MainDisplayInit ==
    /\ demo.pc = "display_init"
    /\ DemoStep(display_init(dev), "display_init",
                [demo EXCEPT !.pc = "add_displ_modes"])

MainAddDisplModes ==
    /\ demo.pc = "add_displ_modes"
    /\ \E r \in add_displ_modes(dev, APP_DISPL_MODES) :
          DemoStep(r, "add_displ_modes", [demo EXCEPT !.pc = "update_sleep_mode"])

\* update_sleep_mode(cliArgs.noLCD)
MainUpdateSleepMode ==
    /\ demo.pc = "update_sleep_mode"
    /\ DemoStep(update_sleep_mode(dev, demo.noLCD), "update_sleep_mode",
                [demo EXCEPT !.pc = "displProgress"])

\* displProgress = cliArgs.progress
MainSetDisplProgress ==
    /\ demo.pc = "displProgress"
    /\ DemoStep(Ok([dev EXCEPT !.displProgress = demo.progress]), "displProgress",
                [demo EXCEPT !.pc = "set_display_mode"])

\* set_display_mode(cliArgs.dmode or config.get(KWD_DISPLAY))
MainSetDisplayMode ==
    /\ demo.pc = "set_display_mode"
    /\ DemoStep(set_display_mode(dev, demo.dmode), "set_display_mode",
                [demo EXCEPT !.pc = "display_message"])

MainDisplayMessage ==
    /\ demo.pc = "display_message"
    /\ DemoStep(display_message(dev, APP_NAME), "display_message",
                [demo EXCEPT !.pc = "sleep"])

\* time.sleep(5); add_sensor('FakeSensor'); main_loop begins: exitApp =
\* False, waitForSensor = 0
MainSleep ==
    /\ demo.pc = "sleep"
    /\ DemoSkip([demo EXCEPT !.pc = "while", !.now = @ + MAIN_SLEEP,
                             !.exitApp = FALSE, !.waitForSensor = 0])

\* A KeyboardInterrupt in main()'s start-up: display_reset(), display_off(),
\* sys.exit(0).  Before add_sensor has returned there is no 'Enviro' to
\* call (KeyError).
MainInterrupted ==
    /\ demo.pc \in {"add_sensor", "display_init", "add_displ_modes",
                    "update_sleep_mode", "displProgress", "set_display_mode",
                    "display_message", "sleep"}
    /\ demo.intr < MaxInterrupts
    /\ DemoStep(IF dev.exists THEN Then(display_reset(dev), display_off)
                ELSE Raise(dev, "KeyError"),
                "KeyboardInterrupt", [demo EXCEPT !.pc = "exit", !.intr = @ + 1])

\* while not exitApp: ... timeCurrent = time.time(); timeSinceUpdate; the
\* sleep mode update that opens the iteration.
LoopTop ==
    /\ demo.pc = "while"
    /\ IF demo.exitApp
       THEN DemoSkip([demo EXCEPT !.pc = "cleanup"])
       ELSE DemoStep(main_loop_sleep_mode(dev, demo.now, demo.displayUpdate,
                                          demo.displSleepTime),
                     "update_sleep_mode",
                     [demo EXCEPT !.pc = "display_progress",
                                  !.timeCurrent = demo.now,
                                  !.timeSinceUpdate = demo.now - demo.timeUpdate])

\* display_progress(app.timeSinceUpdate / app.uploadDelay); if
\* waitForSensor <= 0, collect_data is called.
LoopProgress ==
    /\ demo.pc = "display_progress"
    /\ DemoStep(IF demo.uploadDelay = 0 THEN Raise(dev, "ZeroDivisionError")
                ELSE display_progress(dev, Frac(demo.timeSinceUpdate, demo.uploadDelay)),
                "display_progress",
                [demo EXCEPT !.pc = IF demo.waitForSensor <= 0 THEN "collect_data"
                                    ELSE "wait"])

\* collect_data: exitApp = False; get_demo_data(2); get_proximity(); then
\* the upload if it is due.
CollectRead(reading) ==
    /\ demo.pc = "collect_data"
    /\ DemoStep(Raise(dev, sensor_get(drivers, <<"get_proximity", "ltr559">>)),
                "get_proximity",
                [demo EXCEPT !.pc = IF demo.timeSinceUpdate >= demo.uploadDelay
                                    THEN "upload" ELSE "update_LCD",
                             !.retExit = FALSE,
                             !.newData = [rndnum |-> reading.rndnum,
                                          rndpcnt |-> reading.rndpcnt],
                             !.proximity = reading.proximity])

\* asyncio.run(upload_demo_data(...)) returns: the else and the finally
\* clause.
CollectUpload ==
    /\ demo.pc = "upload"
    /\ demo.now + SEND_DATA_SLEEP <= MaxTime
    /\ DemoSkip([demo EXCEPT !.pc = "update_LCD",
                             !.now = @ + SEND_DATA_SLEEP,
                             !.numUploads = @ + 1,
                             !.uploadDelay = demo.ioFreq,
                             !.timeUpdate = demo.timeCurrent,
                             !.retExit = uploads_done(demo.maxUploads,
                                                      demo.numUploads + 1)])

\* A KeyboardInterrupt during the upload: the except clause (exitApp =
\* True) and then the finally clause, which assigns exitApp again.  The
\* interrupt cuts send_data's sleep short, or asyncio.run raises it when the
\* sleep is over.
CollectUploadInterrupted ==
    /\ demo.pc = "upload"
    /\ demo.intr < MaxInterrupts
    /\ \E slept \in {0, SEND_DATA_SLEEP} :
          /\ demo.now + slept <= MaxTime
          /\ DemoSkip([demo EXCEPT !.pc = "update_LCD",
                                   !.now = @ + slept,
                                   !.intr = @ + 1,
                                   !.timeUpdate = demo.timeCurrent,
                                   !.retExit = uploads_done(demo.maxUploads,
                                                            demo.numUploads)])

\* A collect_data that stores the new value of rndnum only.
CollectUpdateLCD_rndnum_only(clear) ==
    /\ demo.pc = "update_LCD"
    /\ LET m == update_Enviro_LCD_display_mode(dev, demo.displayUpdate,
                                               demo.timeCurrent, demo.proximity)
           rndnum == DequeAppend(demo.rndnum, demo.newData.rndnum, MaxLen)
           rndpcnt == demo.rndpcnt
       IN  DemoStep(Then(m.r, LAMBDA x : update_Enviro_LCD(x, rndnum, rndpcnt, clear)),
                    "update_Enviro_LCD",
                    [demo EXCEPT !.pc = "wait",
                                 !.displayUpdate = m.displayUpdate,
                                 !.rndnum = rndnum,
                                 !.rndpcnt = rndpcnt,
                                 !.exitApp = demo.retExit,
                                 !.waitForSensor = Max2(demo.ioWait, APP_MIN_PROG_WAIT)])

\* The rest of collect_data: the display mode follows a tap, the new data
\* is appended and the LCD updated; then main_loop takes the returned
\* exitApp and resets waitForSensor.
CollectUpdateLCD(clear) ==
    /\ demo.pc = "update_LCD"
    /\ LET m == update_Enviro_LCD_display_mode(dev, demo.displayUpdate,
                                               demo.timeCurrent, demo.proximity)
           rndnum == DequeAppend(demo.rndnum, demo.newData.rndnum, MaxLen)
           rndpcnt == DequeAppend(demo.rndpcnt, demo.newData.rndpcnt, MaxLen)
       IN  DemoStep(Then(m.r, LAMBDA x : update_Enviro_LCD(x, rndnum, rndpcnt, clear)),
                    "update_Enviro_LCD",
                    [demo EXCEPT !.pc = "wait",
                                 !.displayUpdate = m.displayUpdate,
                                 !.rndnum = rndnum,
                                 !.rndpcnt = rndpcnt,
                                 !.exitApp = demo.retExit,
                                 !.waitForSensor = Max2(demo.ioWait, APP_MIN_PROG_WAIT)])

\* if not exitApp: time.sleep(app.loopWait); waitForSensor -= app.loopWait
LoopWait ==
    /\ demo.pc = "wait"
    /\ demo.exitApp \/ demo.now + demo.loopWait <= MaxTime
    /\ DemoSkip(IF demo.exitApp THEN [demo EXCEPT !.pc = "while"]
                ELSE [demo EXCEPT !.pc = "while",
                                  !.now = @ + demo.loopWait,
                                  !.waitForSensor = @ - demo.loopWait])

\* A KeyboardInterrupt inside main_loop's try, outside the upload: exitApp =
\* True.
LoopInterrupted ==
    /\ demo.pc \in {"display_progress", "collect_data", "update_LCD"}
    /\ demo.intr < MaxInterrupts
    /\ DemoSkip([demo EXCEPT !.pc = "wait", !.exitApp = TRUE, !.intr = @ + 1])

\* A KeyboardInterrupt during main_loop's time.sleep: it leaves main_loop
\* and is suppressed by main().
WaitInterrupted ==
    /\ demo.pc = "wait"
    /\ ~demo.exitApp
    /\ demo.intr < MaxInterrupts
    /\ DemoSkip([demo EXCEPT !.pc = "cleanup", !.intr = @ + 1])

\* display_reset(); display_off(); show_summary()
MainCleanup ==
    /\ demo.pc = "cleanup"
    /\ DemoStep(Then(display_reset(dev), display_off), "display_off",
                [demo EXCEPT !.pc = "exit"])

\* The demo runs on when no interrupt is delivered.
DemoRuns ==
    \/ MainAddSensor
    \/ MainDisplayInit
    \/ MainAddDisplModes
    \/ MainUpdateSleepMode
    \/ MainSetDisplProgress
    \/ MainSetDisplayMode
    \/ MainDisplayMessage
    \/ MainSleep
    \/ LoopTop
    \/ LoopProgress
    \/ \E reading \in DemoReadings : CollectRead(reading)
    \/ CollectUpload
    \/ \E clear \in BOOLEAN : CollectUpdateLCD(clear)
    \/ LoopWait
    \/ MainCleanup

NextSpecDemo ==
    \/ DemoRuns
    \/ MainInterrupted
    \/ CollectUploadInterrupted
    \/ LoopInterrupted
    \/ WaitInterrupted

SpecDemo == InitSpecDemo /\ [][NextSpecDemo]_vars

\* The demo is scheduled as long as it can run.
FairSpecDemo == SpecDemo /\ WF_vars(DemoRuns)

----------------------------------------------------------------------------
(***************************************************************************)
(* Upload cycles.                                                          *)
(***************************************************************************)
\* The demo was started with --uploads N, N >= 1.
UploadsBounded == demo.pc # "none" /\ demo.maxUploads >= 1

\* The position is inside a loop iteration, before its upload.
BeforeUpload == demo.pc \in {"display_progress", "collect_data", "upload"}

\* Once numUploads is maxUploads no iteration reads or uploads again, and the
\* collect_data step that counted the last upload returns exitApp.
UploadsSafe ==
    UploadsBounded =>
        /\ demo.numUploads <= demo.maxUploads
        /\ demo.numUploads = demo.maxUploads =>
              /\ ~BeforeUpload
              /\ demo.pc = "update_LCD" => demo.retExit
              /\ demo.pc \in {"wait", "while"} => demo.exitApp

\* C13: with --uploads N, N >= 1, numUploads never exceeds N and the loop
\* exits in the collect_data step in which numUploads reaches N; and, when
\* time advances and no interrupt is delivered, the demo eventually exits.
C13_UploadsBounded ==
    /\ []UploadsSafe
    /\ <>(~UploadsBounded \/ demo.intr > 0 \/ demo.pc = "exit")

\* The demo has ended after its second upload, with --uploads 2 and no
\* interrupt.
C13_Witness ==
    /\ demo.pc = "exit"
    /\ demo.intr = 0
    /\ demo.maxUploads = 2
    /\ demo.numUploads = 2

----------------------------------------------------------------------------
(***************************************************************************)
(* Interrupts and the start-up with --noLCD.                               *)
(***************************************************************************)
\* C11: a KeyboardInterrupt delivered to the demo ends it: once one was
\* delivered, no loop iteration is executed any more (the position is never
\* again inside an iteration, before its upload).
C11_InterruptEndsLoop ==
    demo.intr > 0 => ~BeforeUpload

\* main() is past update_sleep_mode(cliArgs.noLCD) and the first iteration
\* of main_loop has not begun.
StartUpAfterSleepMode ==
    \/ demo.pc \in {"displProgress", "set_display_mode", "display_message", "sleep"}
    \/ demo.pc = "while" /\ lastOp = "display_message"

\* C12: with --noLCD, from update_sleep_mode(noLCD) to the start of the main
\* loop the display is in sleep mode, and no start-up step wakes the display
\* or pushes an image to the LCD.
C12_NoLCDStartsAsleep ==
    (demo.noLCD /\ StartUpAfterSleepMode) =>
        /\ dev.displSleepMode
        /\ ~dev.LCD[1].on
        /\ ~pushed
        /\ "display_on" \notin ToSet(prior.power)

----------------------------------------------------------------------------
(***************************************************************************)
(* The sleep timer of the main loop.                                       *)
(***************************************************************************)
\* More than displSleepTime seconds have passed since displayUpdate, by the
\* clock reading of the iteration.
SleepDue == demo.timeCurrent - demo.displayUpdate > demo.displSleepTime

\* The position is inside a loop iteration, before it renders the data.
BeforeRender == BeforeUpload \/ demo.pc = "update_LCD"

\* C19: an iteration of the main loop that finds more than displSleepTime
\* seconds passed since displayUpdate puts the display to sleep before it
\* renders: from its sleep mode update up to the data update the display is
\* asleep and nothing was pushed, and when the update found the display
\* awake it switched the LCD off.
C19_SleepsBeforeRendering ==
    (BeforeRender /\ SleepDue) =>
        /\ dev.displSleepMode
        /\ ~pushed
        /\ (demo.pc = "display_progress" /\ ~prior.asleep) =>
               prior.power = <<"display_off">>

\* The sleep mode update of an iteration has just put an awake display to
\* sleep.
C19_Witness ==
    /\ demo.pc = "display_progress"
    /\ SleepDue
    /\ ~prior.asleep
    /\ dev.displSleepMode
    /\ prior.power = <<"display_off">>

----------------------------------------------------------------------------
(***************************************************************************)
(* Rotation by half turns.                                                 *)
(***************************************************************************)
\* C21: display_rotate with step180 = True turns the display by 180
\* degrees: from every rotation r the new rotation is (r + 180) mod 360.
C21_Step180IsHalfTurn ==
    [][(lastOp' = "display_rotate" /\ prior'.args[2] /\ err' = "") =>
           dev'.displRotation = (dev.displRotation + 180) % 360]_vars

----------------------------------------------------------------------------
(***************************************************************************)
(* The list of registered views.                                           *)
(***************************************************************************)
\* C22: add_displ_modes keeps displayModes a duplicate-free union: after
\* add_displ_modes(m) the list holds exactly the modes registered before and
\* the modes of m, each once (so a repeated call changes nothing in the set),
\* and no operation ever removes a registered mode.
C22_ModesAreUnion ==
    /\ [](Len(dev.displayModes) = Cardinality(ToSet(dev.displayModes)))
    /\ [][/\ ToSet(dev.displayModes) \subseteq ToSet(dev'.displayModes)
          /\ lastOp' = "add_displ_modes" =>
                /\ err' = ""
                /\ ToSet(dev'.displayModes) =
                      ToSet(dev.displayModes) \cup ToSet(prior'.args[1])]_vars

\* 'rndnum' was registered again when all three views were registered
\* already.
C22_Witness ==
    /\ lastOp = "add_displ_modes"
    /\ prior.args = << <<"rndnum">> >>
    /\ ToSet(dev.displayModes) = {DISPL_SPARKLE, "rndnum", "rndpcnt"}
    /\ Len(dev.displayModes) = 3

----------------------------------------------------------------------------
(***************************************************************************)
(* Specification of one graph: a series of any length up to one more than  *)
(* the display is wide, with defined limits or with none, is drawn with    *)
(* and without minMax and colorMap on a device that was constructed with   *)
(* the vendor drivers and initialised.                                     *)
(***************************************************************************)
\* The series drawn: none to LcdWidth + 1 samples.
GraphSeries ==
    UNION {[1..n -> {None, Num(Q(50)), Num(Q(100))}] : n \in 0..(LcdWidth + 1)}

\* limits of a DataUnit that defines none.
NoLimits == <<0, 0, 0, 0>>

InitSpecGraph ==
    /\ series = "rndnum"
    /\ maxLen = LcdWidth + 1
    /\ defVal = None
    /\ data \in GraphSeries
    /\ hist = data
    /\ dataClean = <<>>
    /\ lenSlice = 0
    /\ drivers = {}
    /\ \E progress \in BOOLEAN : dev = ReadyDevice(progress)
    /\ pushed = FALSE
    /\ progLog = <<>>
    /\ prior = NoCall
    /\ demo = NoDemo
    /\ pms = <<>>
    /\ NoColor
    /\ lastOp = "init"
    /\ err = ""

NextSpecGraph ==
    \/ \E limits \in {Limits(series), NoLimits},
          minMax \in {None, _minMax(data)},
          colorMap \in {None, <<TriColors>>} :
            DisplayAsGraph([DataUnit(data, series) EXCEPT !.limits = limits],
                           minMax, colorMap, DISPL_LBL_LEN)
    \/ \E anyArg \in BOOLEAN : UpdateSleepMode(anyArg)

SpecGraph == InitSpecGraph /\ [][NextSpecGraph]_vars

\* C23: the colorMap argument of display_as_graph is optional: a call
\* without one on an awake display completes and pushes the graph to the
\* LCD, for series with limits that are all non-zero and for series without
\* defined limits.
C23_ColorMapOptional ==
    (lastOp = "display_as_graph" /\ ~prior.asleep /\ prior.args[2] = None) =>
        (err = "" /\ pushed)

----------------------------------------------------------------------------
(***************************************************************************)
(* The samples of the demo.                                                *)
(***************************************************************************)
\* deque.append on a full deque of n values: the oldest is dropped, the
\* others move up and x is the newest.
AppendedOne(before, after, x) ==
    /\ Len(after) = Len(before)
    /\ after[Len(after)] = x
    /\ \A i \in 1..(Len(before) - 1) : after[i] = before[i + 1]

\* A collect_data that returns to main_loop.
CollectDataReturns ==
    demo.pc = "update_LCD" /\ demo'.pc = "wait" /\ demo'.intr = demo.intr

\* C24: a collect_data that returns appends exactly one value, the one just
\* read, to each of rndnum and rndpcnt; no other step of the demo (sleep
\* update, progress bar, rendering, upload, waiting) adds, removes or
\* changes a stored sample.
C24_OnlyReadsAppend ==
    [][IF CollectDataReturns
       THEN /\ AppendedOne(demo.rndnum, demo'.rndnum, demo.newData.rndnum)
            /\ AppendedOne(demo.rndpcnt, demo'.rndpcnt, demo.newData.rndpcnt)
       ELSE /\ demo'.rndnum = demo.rndnum
            /\ demo'.rndpcnt = demo.rndpcnt]_vars

C24_Witness ==
    /\ demo.pc = "wait"
    /\ lastOp = "update_Enviro_LCD"
    /\ demo.rndnum = <<None, Num(Q(100)), Num(Q(100))>>
    /\ demo.rndpcnt = <<None, Num(Q(50)), Num(Q(50))>>

----------------------------------------------------------------------------
(***************************************************************************)
(* Stepping through the views.                                             *)
(***************************************************************************)
\* The view names set_display_mode(1) selects in k successive calls.
RECURSIVE ForwardViews(_, _)
ForwardViews(d, k) ==
    IF k = 0 THEN <<>>
    ELSE LET x == set_display_mode(d, IntMode(1)).dev
         IN  <<x.displMode>> \o ForwardViews(x, k - 1)

\* C25: an integer argument steps through the registered views with
\* wrap-around: a non-negative integer selects the view after the current
\* one (the first after the last), a negative one the view before it (the
\* last before the first); N forward steps over N views select every view
\* once and end at the view they started from, and a forward step followed
\* by a backward step selects the view it started from.
C25_IntegersCycleViews ==
    /\ [][(lastOp' = "set_display_mode" /\ prior'.args[1].type = "int") =>
             LET modes == dev.displayModes
                 N == Len(modes)
                 i == IndexOf(modes, dev.displMode)
                 next == IF prior'.args[1].n < 0 THEN (i + N - 1) % N ELSE (i + 1) % N
             IN  /\ err' # "ValueError"
                 /\ dev'.displayModes = modes
                 /\ dev'.displMode = modes[next + 1]]_vars
    /\ [](dev.exists =>
             LET N == Len(dev.displayModes)
                 visits == ForwardViews(dev, N)
                 there == set_display_mode(dev, IntMode(1)).dev
                 back == set_display_mode(there, IntMode(-1)).dev
             IN  /\ Len(visits) = N
                 /\ ToSet(visits) = ToSet(dev.displayModes)
                 /\ visits[N] = dev.displMode
                 /\ back.displMode = dev.displMode)

\* With three views registered and the last one current, set_display_mode(0)
\* wrapped around to the first.
C25_Witness ==
    /\ lastOp = "set_display_mode"
    /\ prior.args = <<IntMode(0)>>
    /\ Len(dev.displayModes) = 3
    /\ dev.displMode = dev.displayModes[1]
    /\ dev.displMode # DISPL_SPARKLE

----------------------------------------------------------------------------
(***************************************************************************)
(* The values of a graph.                                                  *)
(***************************************************************************)
\* The number the label is formatted from.
GraphLabelValue == dev.img[1].main[5][2]

\* C26: a graph that display_as_graph draws has exactly displayWidth
\* values: the last displayWidth samples of the series in their order,
\* every None replaced by the default (0), with the default in front of
\* them when the series has fewer samples; the label shows the last of the
\* plotted values.
C26_GraphWindow ==
    (lastOp = "display_as_graph" /\ ~prior.asleep /\ err = "") =>
        LET values == dev.img[1].main[2]
            W == displayWidth(dev)
            n == Len(data)
            k == IF n < W THEN n ELSE W
        IN  /\ pushed
            /\ Len(values) = W
            /\ \A i \in 1..(W - k) : values[i] = Num(0)
            /\ \A i \in 1..k :
                  values[W - k + i] = IF data[n - k + i] = None THEN Num(0)
                                      ELSE data[n - k + i]
            /\ GraphLabelValue = values[W]

\* A series of two samples, the older one None, was drawn: the graph is as
\* wide as the display, starts with the default and ends with the newest
\* sample.
C26_Witness ==
    /\ lastOp = "display_as_graph"
    /\ err = ""
    /\ pushed
    /\ data = <<None, Num(Q(50))>>
    /\ Len(dev.img[1].main[2]) = LcdWidth
    /\ \A i \in 1..(LcdWidth - 1) : dev.img[1].main[2][i] = Num(0)
    /\ dev.img[1].main[2][LcdWidth] = Num(Q(50))
    /\ GraphLabelValue = Num(Q(50))

====
